---- MODULE Spec2Model ----
(***************************************************************************)
(* CSS selector builder of src/src/06-objects-tasks.js: class Builder      *)
(* (lines 115-218) and the facade cssSelectorBuilder (lines 220-255).      *)
(*                                                                         *)
(* A JavaScript string is modelled as the sequence of its characters, so   *)
(* '' is << >>, 'a' is <<"a">> and concatenation is \o.  An array of       *)
(* strings is a sequence of such sequences.  Builder objects live in       *)
(* `heap` and are named by their index; composites returned by combine     *)
(* live in `comps`.                                                        *)
(***************************************************************************)
EXTENDS Integers, Sequences, FiniteSets, TLC

VARIABLES
    heap,      \* heap[b].selector of every Builder object created so far
    accepted,  \* history: accepted[b] = the fragments <<category, token>> that
               \* calls on b (its factory call included) accepted since b was
               \* created or last reset, in call order
    comps,     \* comps[c] = the `result` captured by the c-th combine() closure
    used,      \* how many calls so far added something: a fragment accepted by a
               \* factory or a fragment method, or a composite made by combine
    res        \* the outcome of the last call: what the caller observes

vars == <<heap, accepted, comps, used, res>>

----------------------------------------------------------------------------
(* Bounds of the model *)

MaxCalls == 3

(* The string tokens the calls are made with; '' is one of them. *)
EmptyStr == << >>
Tokens == { EmptyStr, <<"a">> }

(* The combinator symbols ' ', '+', '~', '>' (line 71). *)
Combinators == { <<" ">>, <<"+">>, <<"~">>, <<">">> }

(* The six categories in the order of line 67. *)
Categories == <<"element", "id", "class", "attr", "pseudoClass", "pseudoElement">>

Rank(cat) == CHOOSE i \in 1..Len(Categories) : Categories[i] = cat

CategorySet == { Categories[i] : i \in 1..Len(Categories) }

----------------------------------------------------------------------------
(* The two messages thrown by the fragment methods (lines 160 and 164). *)

OrderError == "Selector parts should be arranged in the following order: element, id, class, attribute, pseudo-class, pseudo-element"

DuplicateError == "Element, id and pseudo-element should not occur more then one time inside the selector"

NoError == "none"

----------------------------------------------------------------------------
(* Array.prototype.join on an array of strings. *)

RECURSIVE join(_, _)
join(arr, sep) ==
    IF Len(arr) = 0 THEN EmptyStr
    ELSE IF Len(arr) = 1 THEN arr[1]
    ELSE arr[1] \o sep \o join(Tail(arr), sep)

(* selector.attr.forEach(element => arr.push(`[${element}]`)), lines 133-135 *)
RECURSIVE wrapAttrs(_)
wrapAttrs(attrs) ==
    IF Len(attrs) = 0 THEN << >>
    ELSE << <<"[">> \o attrs[1] \o <<"]">> >> \o wrapAttrs(Tail(attrs))

(* Builder.createSelector, lines 127-140 *)
createSelector(selector) ==
    LET a1 == << selector.element >>
        a2 == IF selector.id # EmptyStr
                 THEN Append(a1, <<"#">> \o selector.id) ELSE a1
        a3 == IF Len(selector.class) # 0
                 THEN Append(a2, <<".">> \o join(selector.class, <<".">>)) ELSE a2
        a4 == a3 \o wrapAttrs(selector.attr)
        a5 == IF Len(selector.pseudoClass) # 0
                 THEN Append(a4, <<":">> \o join(selector.pseudoClass, <<":">>)) ELSE a4
        a6 == IF selector.pseudoElement # EmptyStr
                 THEN Append(a5, <<":", ":">> \o selector.pseudoElement) ELSE a5
    IN  join(a6, EmptyStr)

(* Builder.resetData, lines 148-155: the selector it leaves behind *)
resetData ==
    [ element |-> EmptyStr, id |-> EmptyStr, class |-> << >>, attr |-> << >>,
      pseudoClass |-> << >>, pseudoElement |-> EmptyStr ]

(* `options.k || ''` for a string option: undefined and '' are both falsy *)
strOption(options, k) ==
    IF k \in DOMAIN options /\ options[k] # EmptyStr THEN options[k] ELSE EmptyStr

(* `options.k || []` for an array option: an array is truthy, undefined is not *)
arrOption(options, k) ==
    IF k \in DOMAIN options THEN options[k] ELSE << >>

(* Builder.constructor, lines 116-125 *)
constructor(options) ==
    [ element |-> strOption(options, "element"),
      id |-> strOption(options, "id"),
      class |-> arrOption(options, "class"),
      attr |-> arrOption(options, "attr"),
      pseudoClass |-> arrOption(options, "pseudoClass"),
      pseudoElement |-> strOption(options, "pseudoElement") ]

(* The options object each factory of cssSelectorBuilder passes, lines 221-243 *)
factoryOptions(cat, value) ==
    CASE cat = "element" -> [ element |-> value ]
      [] cat = "id" -> [ id |-> value ]
      [] cat = "class" -> [ class |-> << value >> ]
      [] cat = "attr" -> [ attr |-> << value >> ]
      [] cat = "pseudoClass" -> [ pseudoClass |-> << value >> ]
      [] cat = "pseudoElement" -> [ pseudoElement |-> value ]

----------------------------------------------------------------------------
(* The conditions of the fragment methods *)

(* line 158 *)
elementOrder(s) ==
    s.id # EmptyStr \/ Len(s.class) > 0 \/ Len(s.attr) > 0
        \/ Len(s.pseudoClass) > 0 \/ s.pseudoElement # EmptyStr

(* line 162 *)
elementDuplicate(s) == s.element # EmptyStr

(* line 171 *)
idOrder(s) ==
    Len(s.class) > 0 \/ Len(s.attr) > 0 \/ Len(s.pseudoClass) > 0
        \/ s.pseudoElement # EmptyStr

(* line 175 *)
idDuplicate(s) == s.id # EmptyStr

(* line 184 *)
classOrder(s) ==
    Len(s.attr) > 0 \/ Len(s.pseudoClass) > 0 \/ s.pseudoElement # EmptyStr

(* line 193 *)
attrOrder(s) == Len(s.pseudoClass) > 0 \/ s.pseudoElement # EmptyStr

(* line 202 *)
pseudoClassOrder(s) == s.pseudoElement # EmptyStr

(* line 211 *)
pseudoElementDuplicate(s) == s.pseudoElement # EmptyStr

----------------------------------------------------------------------------
(* State *)

Builders == 1..Len(heap)

Init ==
    /\ heap = << >>
    /\ accepted = << >>
    /\ comps = << >>
    /\ used = 0
    /\ res = [ op |-> "init", self |-> 0, err |-> NoError,
               ret |-> 0, out |-> EmptyStr ]

(* a throw that skips resetData *)
throwNoReset(b, op, value, msg) ==
    /\ res' = [ op |-> op, self |-> b, err |-> msg,
                ret |-> 0, out |-> EmptyStr ]
    /\ UNCHANGED <<heap, accepted, comps, used>>

(* a throw after a resetData that forgets to clear the element *)
throwKeepElement(b, op, value, msg) ==
    /\ heap' = [heap EXCEPT ![b] = [resetData EXCEPT !.element = heap[b].element]]
    /\ accepted' = [accepted EXCEPT ![b] = << >>]
    /\ res' = [ op |-> op, self |-> b, err |-> msg,
                ret |-> 0, out |-> EmptyStr ]
    /\ UNCHANGED <<comps, used>>

(* `this.resetData(); throw new Error(msg)`: the call on b ends by throwing *)
throw(b, op, value, msg) ==
    /\ heap' = [heap EXCEPT ![b] = resetData]
    /\ accepted' = [accepted EXCEPT ![b] = << >>]
    /\ res' = [ op |-> op, self |-> b, err |-> msg,
                ret |-> 0, out |-> EmptyStr ]
    /\ UNCHANGED <<comps, used>>

(* a fragment method that returns a new Builder holding the result and leaves
   `this` as it was *)
returnCopy(b, op, value, selector) ==
    /\ used < MaxCalls
    /\ used' = used + 1
    /\ heap' = Append(heap, selector)
    /\ accepted' = Append(accepted, Append(accepted[b], <<op, value>>))
    /\ res' = [ op |-> op, self |-> b, err |-> NoError,
                ret |-> Len(heap) + 1, out |-> EmptyStr ]
    /\ UNCHANGED comps

(* `this.selector.<field> = ...; return this`: the call on b stores and returns b *)
return(b, op, value, selector) ==
    /\ used < MaxCalls
    /\ used' = used + 1
    /\ heap' = [heap EXCEPT ![b] = selector]
    /\ accepted' = [accepted EXCEPT ![b] = Append(@, <<op, value>>)]
    /\ res' = [ op |-> op, self |-> b, err |-> NoError,
                ret |-> b, out |-> EmptyStr ]
    /\ UNCHANGED comps

(* a facade that keeps one Builder and refills it on every factory call *)
FactoryShared(cat, value) ==
    /\ used < MaxCalls
    /\ used' = used + 1
    /\ heap' = IF Len(heap) = 0
               THEN << constructor(factoryOptions(cat, value)) >>
               ELSE [heap EXCEPT ![1] = constructor(factoryOptions(cat, value))]
    /\ accepted' = IF Len(heap) = 0
                   THEN << << <<cat, value>> >> >>
                   ELSE [accepted EXCEPT ![1] = << <<cat, value>> >>]
    /\ res' = [ op |-> "new", self |-> 0, err |-> NoError,
                ret |-> 1, out |-> EmptyStr ]
    /\ UNCHANGED comps

(* cssSelectorBuilder.element ... pseudoElement, lines 221-243 *)
Factory(cat, value) ==
    /\ used < MaxCalls
    /\ used' = used + 1
    /\ heap' = Append(heap, constructor(factoryOptions(cat, value)))
    /\ accepted' = Append(accepted, << <<cat, value>> >>)
    /\ res' = [ op |-> "new", self |-> 0, err |-> NoError,
                ret |-> Len(heap) + 1, out |-> EmptyStr ]
    /\ UNCHANGED comps

(* Builder.element, lines 157-168 *)
Element(b, value) ==
    IF elementOrder(heap[b]) THEN throw(b, "element", value, OrderError)
    ELSE IF elementDuplicate(heap[b]) THEN throw(b, "element", value, DuplicateError)
    ELSE return(b, "element", value, [heap[b] EXCEPT !.element = value])

(* Builder.id, lines 170-181 *)
Id(b, value) ==
    IF idOrder(heap[b]) THEN throw(b, "id", value, OrderError)
    ELSE IF idDuplicate(heap[b]) THEN throw(b, "id", value, DuplicateError)
    ELSE return(b, "id", value, [heap[b] EXCEPT !.id = value])

(* a class method that drops a token the builder already holds *)
ClassUnique(b, value) ==
    IF classOrder(heap[b]) THEN throw(b, "class", value, OrderError)
    ELSE return(b, "class", value,
                [heap[b] EXCEPT !.class =
                    IF \E i \in 1..Len(@) : @[i] = value THEN @ ELSE Append(@, value)])

(* Builder.class, lines 183-190 *)
Class(b, value) ==
    IF classOrder(heap[b]) THEN throw(b, "class", value, OrderError)
    ELSE return(b, "class", value, [heap[b] EXCEPT !.class = Append(@, value)])

(* Builder.attr, lines 192-199 *)
Attr(b, value) ==
    IF attrOrder(heap[b]) THEN throw(b, "attr", value, OrderError)
    ELSE return(b, "attr", value, [heap[b] EXCEPT !.attr = Append(@, value)])

(* Builder.pseudoClass, lines 201-208 *)
PseudoClass(b, value) ==
    IF pseudoClassOrder(heap[b]) THEN throw(b, "pseudoClass", value, OrderError)
    ELSE return(b, "pseudoClass", value,
                [heap[b] EXCEPT !.pseudoClass = Append(@, value)])

(* Builder.pseudoElement, lines 210-217 *)
PseudoElement(b, value) ==
    IF pseudoElementDuplicate(heap[b])
    THEN throw(b, "pseudoElement", value, DuplicateError)
    ELSE return(b, "pseudoElement", value, [heap[b] EXCEPT !.pseudoElement = value])

(* a stringify that skips resetData *)
StringifyNoReset(b) ==
    /\ res' = [ op |-> "stringify", self |-> b, err |-> NoError,
                ret |-> 0, out |-> createSelector(heap[b]) ]
    /\ UNCHANGED <<heap, accepted, comps, used>>

(* Builder.stringify, lines 142-146 *)
Stringify(b) ==
    /\ heap' = [heap EXCEPT ![b] = resetData]
    /\ accepted' = [accepted EXCEPT ![b] = << >>]
    /\ res' = [ op |-> "stringify", self |-> b, err |-> NoError,
                ret |-> 0, out |-> createSelector(heap[b]) ]
    /\ UNCHANGED <<comps, used>>

(* What combine() may be handed: a Builder or the object an earlier combine()
   returned; both have a stringify method. *)
Operands ==
    { [kind |-> "builder", ref |-> b] : b \in Builders }
        \cup { [kind |-> "composite", ref |-> c] : c \in 1..Len(comps) }

(* x.stringify() called with the Builder objects in state h: what it returns
   (lines 143-145 for a Builder, line 251 for a composite) *)
stringifyResult(h, x) ==
    IF x.kind = "builder" THEN createSelector(h[x.ref]) ELSE comps[x.ref]

(* a stringify inside combine that resets nothing *)
stringifyEffectNone(h, x) == h

(* x.stringify() called with the Builder objects in state h: the Builder objects
   afterwards (line 144 for a Builder; a composite's stringify assigns nothing) *)
stringifyEffect(h, x) ==
    IF x.kind = "builder" THEN [h EXCEPT ![x.ref] = resetData] ELSE h

(* a join that writes the descendant combinator as a single space *)
combineResultTrim(sel1, combinator, sel2) ==
    IF combinator = <<" ">> THEN sel1 \o <<" ">> \o sel2
    ELSE join(<<sel1, combinator, sel2>>, <<" ">>)

(* a join of the three parts without the separator *)
combineResultNoPad(sel1, combinator, sel2) == join(<<sel1, combinator, sel2>>, EmptyStr)

(* `[sel1, combinator, sel2].join(' ')`, line 248 *)
combineResult(sel1, combinator, sel2) == join(<<sel1, combinator, sel2>>, <<" ">>)

(* a combine that stringifies selector2 before selector1 *)
CombineRightFirst(selector1, combinator, selector2) ==
    LET sel2 == stringifyResult(heap, selector2)
        h1 == stringifyEffect(heap, selector2)
        sel1 == stringifyResult(h1, selector1)
        h2 == stringifyEffect(h1, selector1)
    IN  /\ used < MaxCalls
        /\ used' = used + 1
        /\ heap' = h2
        /\ accepted' = [ b \in Builders |->
                           IF [kind |-> "builder", ref |-> b] \in {selector1, selector2}
                           THEN << >> ELSE accepted[b] ]
        /\ comps' = Append(comps, combineResult(sel1, combinator, sel2))
        /\ res' = [ op |-> "combine", self |-> 0, err |-> NoError,
                    ret |-> Len(comps) + 1, out |-> EmptyStr,
                    left |-> selector1, combinator |-> combinator,
                    right |-> selector2 ]

(* cssSelectorBuilder.combine, lines 245-254 *)
Combine(selector1, combinator, selector2) ==
    LET sel1 == stringifyResult(heap, selector1)
        h1 == stringifyEffect(heap, selector1)
        sel2 == stringifyResult(h1, selector2)
        h2 == stringifyEffect(h1, selector2)
    IN  /\ used < MaxCalls
        /\ used' = used + 1
        /\ heap' = h2
        /\ accepted' = [ b \in Builders |->
                           IF [kind |-> "builder", ref |-> b] \in {selector1, selector2}
                           THEN << >> ELSE accepted[b] ]
        /\ comps' = Append(comps, combineResult(sel1, combinator, sel2))
        /\ res' = [ op |-> "combine", self |-> 0, err |-> NoError,
                    ret |-> Len(comps) + 1, out |-> EmptyStr,
                    left |-> selector1, combinator |-> combinator,
                    right |-> selector2 ]

(* a composite whose stringify clears its string, as Builder.stringify does *)
CompositeStringifyOnce(c) ==
    /\ res' = [ op |-> "composite.stringify", self |-> c,
                err |-> NoError, ret |-> 0, out |-> comps[c] ]
    /\ comps' = [comps EXCEPT ![c] = EmptyStr]
    /\ UNCHANGED <<heap, accepted, used>>

(* stringify() of the object combine() returned, lines 250-252 *)
CompositeStringify(c) ==
    /\ res' = [ op |-> "composite.stringify", self |-> c,
                err |-> NoError, ret |-> 0, out |-> comps[c] ]
    /\ UNCHANGED <<heap, accepted, comps, used>>

Next ==
    \/ \E cat \in CategorySet, v \in Tokens : Factory(cat, v)
    \/ \E b \in Builders, v \in Tokens : Element(b, v)
    \/ \E b \in Builders, v \in Tokens : Id(b, v)
    \/ \E b \in Builders, v \in Tokens : Class(b, v)
    \/ \E b \in Builders, v \in Tokens : Attr(b, v)
    \/ \E b \in Builders, v \in Tokens : PseudoClass(b, v)
    \/ \E b \in Builders, v \in Tokens : PseudoElement(b, v)
    \/ \E b \in Builders : Stringify(b)
    \/ \E l \in Operands, r \in Operands, c \in Combinators : Combine(l, c, r)
    \/ \E c \in 1..Len(comps) : CompositeStringify(c)

Spec == Init /\ [][Next]_vars

----------------------------------------------------------------------------
(* Vocabulary of the properties *)

(* the categories that hold one token, and those that hold a sequence *)
Singletons == { "element", "id", "pseudoElement" }

(* the category ranks of a history of accepted fragments never go down *)
NonDecreasing(log) ==
    \A i, j \in 1..Len(log) : i < j => Rank(log[i][1]) <= Rank(log[j][1])

(* how many fragments of category cat a history holds *)
Count(log, cat) == Cardinality({ i \in 1..Len(log) : log[i][1] = cat })

(* a history that obeys the ordering rule and the singleton rule *)
ValidLog(log) ==
    NonDecreasing(log) /\ \A cat \in Singletons : Count(log, cat) <= 1

(* one accepted fragment as the selector text of its category *)
Piece(frag) ==
    CASE frag[1] = "element" -> frag[2]
      [] frag[1] = "id" -> <<"#">> \o frag[2]
      [] frag[1] = "class" -> <<".">> \o frag[2]
      [] frag[1] = "attr" -> <<"[">> \o frag[2] \o <<"]">>
      [] frag[1] = "pseudoClass" -> <<":">> \o frag[2]
      [] frag[1] = "pseudoElement" -> <<":", ":">> \o frag[2]

(* the accepted fragments in call order, each with its category prefix *)
RECURSIVE Render(_)
Render(log) ==
    IF Len(log) = 0 THEN EmptyStr ELSE Piece(log[1]) \o Render(Tail(log))

(* the last call was a fragment method (not a factory) *)
FragmentCall == res.op \in CategorySet

Failed == res.err # NoError

----------------------------------------------------------------------------
(* C1. Ordering (I2): in every builder the fragments accepted since its creation
   or last reset are in non-decreasing category order element < id < class <
   attr < pseudoClass < pseudoElement, for arbitrary string tokens, '' included:
   no call of an earlier category succeeds after a later category was accepted. *)
C1_Ordering == \A b \in Builders : NonDecreasing(accepted[b])

(* C2. Cardinality (I1): in every builder each of element, id and pseudoElement
   is accepted at most once between creation (the factory call counts) and the
   next reset, for arbitrary string tokens, '' included. *)
C2_Cardinality ==
    \A b \in Builders : \A cat \in Singletons : Count(accepted[b], cat) <= 1

(* C3. Reset on error: after a failed fragment call all six fields of that
   builder are empty, so a stringify() issued right after it returns ''. *)
C3_ResetOnError ==
    (FragmentCall /\ Failed) =>
        /\ heap[res.self].element = EmptyStr
        /\ heap[res.self].id = EmptyStr
        /\ heap[res.self].class = << >>
        /\ heap[res.self].attr = << >>
        /\ heap[res.self].pseudoClass = << >>
        /\ heap[res.self].pseudoElement = EmptyStr
        /\ createSelector(heap[res.self]) = EmptyStr

(* C3 witness: element() has just failed with the order error on a builder that
   had accepted two fragments *)
C3_Witness ==
    /\ res.op = "element" /\ res.err = OrderError
    /\ used >= 2
    /\ heap[res.self] = resetData

(* C4. Reset on stringify (I3): stringify() leaves all six fields empty, and a
   further stringify() on the same instance with no call in between returns ''
   and leaves them empty. *)
C4_StringifyLeavesEmpty ==
    res.op = "stringify" =>
        /\ heap[res.self].element = EmptyStr
        /\ heap[res.self].id = EmptyStr
        /\ heap[res.self].class = << >>
        /\ heap[res.self].attr = << >>
        /\ heap[res.self].pseudoClass = << >>
        /\ heap[res.self].pseudoElement = EmptyStr

C4_SecondStringifyEmpty ==
    (res.op = "stringify" /\ res'.op = "stringify" /\ res'.self = res.self) =>
        (res'.out = EmptyStr /\ heap'[res.self] = resetData)

C4_ResetOnStringify == [](C4_StringifyLeavesEmpty) /\ [][C4_SecondStringifyEmpty]_vars

(* C4 witness: stringify() has just returned a non-empty selector of three
   fragments, and the builder is empty *)
C4_Witness ==
    /\ res.op = "stringify"
    /\ Len(res.out) >= 3
    /\ heap[res.self] = resetData

(* C5. stringify() output: in every reachable state of a builder whose accepted
   fragments form a valid category-ordered sequence, stringify() returns those
   tokens in call order, each with its category prefix ('#' + id, '.' + class,
   '[' attr ']', ':' + pseudoClass, '::' + pseudoElement), nothing in between. *)
C5_StringifyOutput ==
    \A b \in Builders :
        ValidLog(accepted[b]) => createSelector(heap[b]) = Render(accepted[b])

(* C6. combine(left, c, right) yields a value whose stringify() is
   leftString ++ ' ' ++ c ++ ' ' ++ rightString, where leftString and rightString
   are what left.stringify() and right.stringify() return during the call (a
   builder passed twice has been reset by the time it is the right operand), with
   exactly one space on each side of every combinator, also when an operand is
   itself a composite. *)
C6_CombineStep ==
    res'.op = "combine" =>
        LET l == res'.left
            r == res'.right
            leftString ==
                IF l.kind = "builder" THEN createSelector(heap[l.ref]) ELSE comps[l.ref]
            rightString ==
                IF r.kind = "composite" THEN comps[r.ref]
                ELSE IF r = l THEN EmptyStr
                ELSE createSelector(heap[r.ref])
        IN  /\ res'.ret = Len(comps) + 1
            /\ comps'[res'.ret] =
                   leftString \o <<" ">> \o res'.combinator \o <<" ">> \o rightString

C6_CombineString == [][C6_CombineStep]_vars

(* C6 witness: combine has just been called with a composite as its left operand
   and the descendant combinator, the inner composite having a non-empty left
   part *)
C6_Witness ==
    /\ res.op = "combine"
    /\ res.left.kind = "composite"
    /\ res.combinator = <<" ">>
    /\ Len(comps[res.left.ref]) > 3

(* C7. A composite is immutable: no call ever changes the string fixed when
   combine made it, every stringify() of the composite returns that string, and
   that call changes no builder. *)
C7_CompositeStep ==
    /\ Len(comps') >= Len(comps)
    /\ \A c \in 1..Len(comps) : comps'[c] = comps[c]
    /\ res'.op = "composite.stringify" =>
            (res'.out = comps[res'.self] /\ heap' = heap)

C7_CompositeImmutable == [][C7_CompositeStep]_vars

(* C7 witness: a composite has just been stringified after one of the builders
   was given a new fragment, and it returned its non-empty string *)
C7_Witness ==
    /\ res.op = "composite.stringify"
    /\ Len(res.out) > 3
    /\ \E b \in Builders : heap[b] # resetData

(* C8. combine consumes its operands: after it returns, every builder passed as
   left or right is empty, so its stringify() returns '', and a composite passed
   as an operand is unchanged. *)
C8_OperandsEmpty ==
    res.op = "combine" =>
        \A x \in { res.left, res.right } :
            x.kind = "builder" =>
                (heap[x.ref] = resetData /\ createSelector(heap[x.ref]) = EmptyStr)

C8_CompositeOperandKept ==
    res'.op = "combine" =>
        \A x \in { res'.left, res'.right } :
            x.kind = "composite" => comps'[x.ref] = comps[x.ref]

OnlyFragment(frag) ==
    IF frag[1] \in Singletons
    THEN [resetData EXCEPT ![frag[1]] = frag[2]]
    ELSE [resetData EXCEPT ![frag[1]] = << frag[2] >>]

(* C9. Each factory creates a new builder that holds exactly the given token in
   its category and nothing in the five others, and builders share no state: a
   factory call, a fragment call (failed or not) or a stringify() on one builder
   leaves every other builder unchanged. *)
C9_FactoryState ==
    res.op = "new" =>
        /\ res.ret = Len(heap)
        /\ heap[res.ret] = OnlyFragment(accepted[res.ret][1])

C9_OthersKept ==
    /\ res'.op = "new" =>
            (res'.ret \notin Builders /\ \A b \in Builders : heap'[b] = heap[b])
    /\ res'.op \in CategorySet \cup { "stringify" } =>
            \A b \in Builders : b # res'.self => heap'[b] = heap[b]

C9_FactoryFresh == [](C9_FactoryState) /\ [][C9_OthersKept]_vars

(* C9 witness: a factory has just created a second builder while the first one
   still holds two fragments *)
C9_Witness ==
    /\ res.op = "new"
    /\ res.ret = 2
    /\ Len(accepted[1]) = 2
    /\ heap[2] # resetData

(* a later category than cat has been accepted *)
ViolatesOrder(log, cat) == \E i \in 1..Len(log) : Rank(log[i][1]) > Rank(cat)

(* cat is a singleton category and has been accepted *)
ViolatesSingleton(log, cat) == cat \in Singletons /\ Count(log, cat) >= 1

(* C10. Exact failure conditions: a fragment call fails if and only if it
   violates the ordering rule or the singleton rule with respect to the
   fragments accepted since the last reset, and stringify() never fails. *)
C10_FailureStep ==
    /\ res'.op \in CategorySet =>
            ( res'.err # NoError
              <=> ( ViolatesOrder(accepted[res'.self], res'.op)
                    \/ ViolatesSingleton(accepted[res'.self], res'.op) ) )
    /\ res'.op = "stringify" => res'.err = NoError

C10_ExactFailure == [][C10_FailureStep]_vars

(* C11. Error kind selection: a failing element() or id() call reports the order
   error whenever a later category has been accepted since the last reset, even
   if the field itself is set too, and the duplicate error only when no later
   category has been accepted and the field has; class(), attr() and
   pseudoClass() only ever fail with the order error, pseudoElement() only ever
   with the duplicate error. *)
C11_ErrorKindStep ==
    (res'.op \in CategorySet /\ res'.err # NoError) =>
        /\ res'.err \in { OrderError, DuplicateError }
        /\ res'.err = OrderError <=> ViolatesOrder(accepted[res'.self], res'.op)
        /\ res'.err = DuplicateError =>
               ( res'.op \in Singletons
                 /\ ~ViolatesOrder(accepted[res'.self], res'.op)
                 /\ ViolatesSingleton(accepted[res'.self], res'.op) )

C11_ErrorKind == [][C11_ErrorKindStep]_vars

(* C12. Fluent chaining: every successful fragment call returns the very builder
   it was called on, which then holds the new fragment as its latest one, so a
   chain of calls accumulates into one builder; a failing call returns no
   builder. *)
C12_FluentChaining ==
    FragmentCall =>
        IF Failed THEN res.ret = 0
        ELSE /\ res.ret = res.self
             /\ res.ret \in Builders
             /\ Len(accepted[res.ret]) >= 1
             /\ accepted[res.ret][Len(accepted[res.ret])][1] = res.op
             /\ LET token == accepted[res.ret][Len(accepted[res.ret])][2]
                    field == heap[res.ret][res.op]
                IN  IF res.op \in Singletons THEN field = token
                    ELSE Len(field) >= 1 /\ field[Len(field)] = token

(* C12 witness: the second chained call after a factory call has just returned
   the builder, which holds all three fragments *)
C12_Witness ==
    /\ FragmentCall /\ ~Failed
    /\ res.ret = res.self
    /\ Len(accepted[res.self]) = 3
    /\ Len(heap[res.self].class) = 2

(* The nested combine of the documentation, lines 97-109: the four builders in
   the state their chains leave them in, combined with '+', '~' and ' ' *)
DocExampleNested ==
    LET div == [ element |-> <<"d", "i", "v">>, id |-> <<"m", "a", "i", "n">>,
          class |-> <<<<"c", "o", "n", "t", "a", "i", "n", "e", "r">>, <<"d", "r", "a", "g", "g", "a", "b", "l", "e">>>>, attr |-> << >>,
          pseudoClass |-> <<>>, pseudoElement |-> EmptyStr ]
        table == [ element |-> <<"t", "a", "b", "l", "e">>, id |-> <<"d", "a", "t", "a">>,
          class |-> <<>>, attr |-> << >>,
          pseudoClass |-> <<>>, pseudoElement |-> EmptyStr ]
        tr == [ element |-> <<"t", "r">>, id |-> <<>>,
          class |-> <<>>, attr |-> << >>,
          pseudoClass |-> <<<<"n", "t", "h", "-", "o", "f", "-", "t", "y", "p", "e", "(", "e", "v", "e", "n", ")">>>>, pseudoElement |-> EmptyStr ]
        td == [ element |-> <<"t", "d">>, id |-> <<>>,
          class |-> <<>>, attr |-> << >>,
          pseudoClass |-> <<<<"n", "t", "h", "-", "o", "f", "-", "t", "y", "p", "e", "(", "e", "v", "e", "n", ")">>>>, pseudoElement |-> EmptyStr ]
    IN  combineResult(createSelector(div), <<"+">>,
            combineResult(createSelector(table), <<"~">>,
                combineResult(createSelector(tr), <<" ">>, createSelector(td))))

(* the string the documentation gives for it, line 110 *)
DocExampleExpected ==
    <<"d", "i", "v", "#", "m", "a", "i", "n", ".", "c", "o", "n", "t",
       "a", "i", "n", "e", "r", ".", "d", "r", "a", "g", "g", "a", "b", "l",
       "e", " ", "+", " ", "t", "a", "b", "l", "e", "#", "d", "a", "t", "a",
       " ", "~", " ", "t", "r", ":", "n", "t", "h", "-", "o", "f", "-", "t",
       "y", "p", "e", "(", "e", "v", "e", "n", ")", " ", " ", " ", "t", "d",
       ":", "n", "t", "h", "-", "o", "f", "-", "t", "y", "p", "e", "(", "e",
       "v", "e", "n", ")">>

(* what left.stringify() returns when combine(left, c, right) is called *)
LeftString(l) ==
    IF l.kind = "builder" THEN createSelector(heap[l.ref]) ELSE comps[l.ref]

(* what right.stringify() returns in that call, after left.stringify() *)
RightString(l, r) ==
    IF r.kind = "composite" THEN comps[r.ref]
    ELSE IF r = l THEN EmptyStr
    ELSE createSelector(heap[r.ref])

(* C13. Descendant combinator spacing: combine(a, ' ', b) puts exactly three
   spaces (pad, combinator, pad) between the left and the right string; a
   composite used as an operand of another combine appears in its result
   unchanged, so the three spaces survive nesting; and the nested example of
   the documentation yields the documented string. *)
C13_SpacingStep ==
    res'.op = "combine" =>
        LET l == res'.left
            r == res'.right
            made == comps'[res'.ret]
        IN  /\ res'.combinator = <<" ">> =>
                   made = LeftString(l) \o <<" ", " ", " ">> \o RightString(l, r)
            /\ l.kind = "composite" =>
                   SubSeq(made, 1, Len(comps[l.ref])) = comps[l.ref]
            /\ r.kind = "composite" =>
                   SubSeq(made, Len(made) - Len(comps[r.ref]) + 1, Len(made))
                       = comps[r.ref]

C13_DescendantSpacing ==
    [](DocExampleNested = DocExampleExpected) /\ [][C13_SpacingStep]_vars

(* C13 witness: the composite 'a   ' made with the descendant combinator has
   just been used as the right operand of another combine *)
C13_Witness ==
    /\ res.op = "combine"
    /\ res.right.kind = "composite"
    /\ comps[res.right.ref] = <<"a", " ", " ", " ">>
    /\ Len(comps[res.ret]) > 4

(* C14. Frame of a successful fragment call: element/id/pseudoElement set only
   their own field to the token; class/attr/pseudoClass append the token at the
   end of their own sequence, keeping the earlier tokens in order (duplicates
   kept); the five other categories are unchanged. *)
C14_FrameStep ==
    (res'.op \in CategorySet /\ res'.err = NoError) =>
        LET b == res'.self
            token == accepted'[b][Len(accepted'[b])][2]
        IN  /\ accepted'[b] = Append(accepted[b], <<res'.op, token>>)
            /\ \A cat \in CategorySet \ { res'.op } : heap'[b][cat] = heap[b][cat]
            /\ IF res'.op \in Singletons
               THEN heap'[b][res'.op] = token
               ELSE /\ Len(heap'[b][res'.op]) = Len(heap[b][res'.op]) + 1
                    /\ SubSeq(heap'[b][res'.op], 1, Len(heap[b][res'.op]))
                           = heap[b][res'.op]
                    /\ heap'[b][res'.op][Len(heap'[b][res'.op])] = token

C14_SuccessFrame == [][C14_FrameStep]_vars

(* C14 witness: a third class has just been appended, the same token 'a' twice
   among them, with '' in between *)
C14_Witness ==
    /\ res.op = "class" /\ res.err = NoError
    /\ heap[res.self].class = << <<"a">>, EmptyStr, <<"a">> >>

(* the selector after one more accepted fragment *)
Accept(s, frag) ==
    IF frag[1] \in Singletons
    THEN [s EXCEPT ![frag[1]] = frag[2]]
    ELSE [s EXCEPT ![frag[1]] = Append(@, frag[2])]

(* the selector an empty builder holds after accepting the fragments of log *)
RECURSIVE Replay(_)
Replay(log) ==
    IF Len(log) = 0 THEN resetData
    ELSE Accept(Replay(SubSeq(log, 1, Len(log) - 1)), log[Len(log)])

(* C15. Reuse after reset: a builder's state is exactly what an empty builder
   holds after the fragments accepted since the last stringify() or failed call,
   so nothing from before the reset is left in it or in its next stringify()
   output; the first fragment call after a reset succeeds whatever its
   category; and a call fails only for a fragment accepted after the reset. *)
C15_StateFromReset ==
    /\ \A b \in Builders : heap[b] = Replay(accepted[b])
    /\ (res.op = "stringify" \/ (FragmentCall /\ Failed)) =>
           (accepted[res.self] = << >> /\ heap[res.self] = resetData)

C15_ReuseStep ==
    res'.op \in CategorySet =>
        /\ accepted[res'.self] = << >> => res'.err = NoError
        /\ res'.err # NoError =>
               ( ViolatesOrder(accepted[res'.self], res'.op)
                 \/ ViolatesSingleton(accepted[res'.self], res'.op) )

C15_ReuseAfterReset == [](C15_StateFromReset) /\ [][C15_ReuseStep]_vars

(* C15 witness: the only builder has accepted three fragments in all, holds the
   last two (an element after the reset that removed a first fragment, then an
   id) and no composite exists: it was reset and reused *)
C15_Witness ==
    /\ Len(heap) = 1 /\ Len(comps) = 0 /\ used = 3
    /\ res.op = "id" /\ res.err = NoError
    /\ accepted[1] = << <<"element", <<"a">> >>, <<"id", <<"a">> >> >>
    /\ createSelector(heap[1]) = <<"a", "#", "a">>

(* C16. Aliased operands: combine stringifies left before right, so the right
   part of the composite is the right operand's selector after the left operand
   has been reset; with the same builder b as both operands the result is
   s ++ ' ' ++ c ++ ' ' with an empty right part, s being b's selector before
   the call. *)
C16_AliasStep ==
    res'.op = "combine" =>
        LET l == res'.left
            r == res'.right
            c == res'.combinator
            made == comps'[res'.ret]
            afterLeft ==
                IF l.kind = "builder" THEN [heap EXCEPT ![l.ref] = resetData] ELSE heap
            rightPart ==
                IF r.kind = "builder" THEN createSelector(afterLeft[r.ref])
                ELSE comps[r.ref]
        IN  /\ made = LeftString(l) \o <<" ">> \o c \o <<" ">> \o rightPart
            /\ (l = r /\ l.kind = "builder") =>
                   made = createSelector(heap[l.ref]) \o <<" ">> \o c \o <<" ">>

C16_AliasedOperands == [][C16_AliasStep]_vars

(* C16 witness: combine(b, '+', b) has just been called on a builder holding
   'a#a' and made 'a#a + ' *)
C16_Witness ==
    /\ res.op = "combine"
    /\ res.left = res.right /\ res.left.kind = "builder"
    /\ comps[res.ret] = <<"a", "#", "a", " ", "+", " ">>
    /\ heap[res.left.ref] = resetData

(* the checks of the fragment methods see category cat of selector s as
   populated: the duplicate check of cat itself (a singleton) and the order
   check of every earlier category *)
TreatedAsPopulated(s, cat) ==
    /\ cat = "element" => elementDuplicate(s)
    /\ cat = "id" => idDuplicate(s)
    /\ cat = "pseudoElement" => pseudoElementDuplicate(s)
    /\ Rank(cat) > Rank("element") => elementOrder(s)
    /\ Rank(cat) > Rank("id") => idOrder(s)
    /\ Rank(cat) > Rank("class") => classOrder(s)
    /\ Rank(cat) > Rank("attr") => attrOrder(s)
    /\ Rank(cat) > Rank("pseudoClass") => pseudoClassOrder(s)

(* category cat of selector s shows in the output of stringify(): the output
   differs from that of the same selector with cat cleared (an element has no
   prefix, so an element '' has nothing to show) *)
ContributesPrefix(s, cat) ==
    \/ cat = "element"
    \/ createSelector(s) # createSelector([s EXCEPT ![cat] = resetData[cat]])

(* C17. Populated means present: in every reachable state, every category in
   which the builder accepted a fragment since the last reset is treated as
   populated by the order and duplicate checks and contributes its prefix to
   stringify(), whatever the token, '' included. *)
C17_PopulatedMeansPresent ==
    \A b \in Builders : \A i \in 1..Len(accepted[b]) :
        /\ TreatedAsPopulated(heap[b], accepted[b][i][1])
        /\ ContributesPrefix(heap[b], accepted[b][i][1])

====
